---- MODULE Spec2Model ----
(***************************************************************************)
(* A model of WebGLLayer.js: the feature buffers (features_), the GeoJSON  *)
(* ingestion (loadData / processPolygon), the recolor operations           *)
(* (changePointColor / changePolyColor) and the upload part of update.     *)
(*                                                                         *)
(* Representation.  A JavaScript array of floats is a sequence of          *)
(* integers; JavaScript index k is position k + 1.  A hole left by a write *)
(* past the end of an array is the value Undefined.  A color channel c in  *)
(* [0, 1] is the integer 256 * c.  Longitudes are multiples of 45 degrees  *)
(* and latitudes are taken from the table of latToY_, so that every world  *)
(* coordinate is an integer.                                               *)
(***************************************************************************)
EXTENDS Integers, Sequences, FiniteSets, TLC

VARIABLES features_, gl_, log, op, calls,
          tilebase, zoomlock, tilecache_, map_, xhr, sent, responses, hooked,
          pixelsToWebGLMatrix_, mapMatrix_, arg, ret, pp, scheduled

tileVars == <<tilebase, zoomlock, tilecache_, xhr, sent, responses>>

\* arg and ret are the argument and the result of a function applied on its
\* own; pp is the activation of processPolygon run call by call.
otherVars == <<pixelsToWebGLMatrix_, arg, ret, pp>>

vars == <<features_, gl_, log, op, calls, tileVars, map_, hooked, mapMatrix_, otherVars,
          scheduled>>

\* Bounds of the model.
MaxCalls == 3
MaxFeatures == 2
MaxLog == 2
MaxZoom == 2

\* The value read from an array slot that was never written.
Undefined == 0 - 1

\* The null of JavaScript.
Null == "null"

(***************************************************************************)
(* Pure helpers of the source.                                             *)
(***************************************************************************)

\* Math.floor(c * c_precision + 0.5) for a channel c = n / 256.
Quantize(n) == (n + 1) \div 2

c_precisionp1 == 129

packColor_rgb(color) ==
  Quantize(color[1])
    + Quantize(color[2]) * c_precisionp1
    + Quantize(color[3]) * c_precisionp1 * c_precisionp1

packColor(color) ==
  Quantize(color[1])
    + Quantize(color[3]) * c_precisionp1
    + Quantize(color[2]) * c_precisionp1 * c_precisionp1

lngToX_(lng) ==
  IF lng > 180 THEN (256 * lng) \div 360 - 128
               ELSE (256 * lng) \div 360 + 128

\* 128 * (1 - ln(tan((0.25 + lat / 360) * pi)) / pi), to the nearest integer.
latToY_(lat) ==
  CASE lat = 0 -> 128
    [] lat = 45 -> 92
    [] lat = 60 -> 74
    [] lat = 0 - 45 -> 164
    [] lat = 85 -> 0

coordsToXY_(coords) == <<lngToX_(coords[1]), latToY_(coords[2])>>

Red == <<256, 0, 0>>
Black == <<0, 0, 0>>
Blue == <<0, 0, 256>>
Green == <<0, 256, 0>>

RECURSIVE SumSeq(_)
SumSeq(s) == IF s = <<>> THEN 0 ELSE Head(s) + SumSeq(Tail(s))

RECURSIVE Flatten(_)
Flatten(ss) == IF ss = <<>> THEN <<>> ELSE Head(ss) \o Flatten(Tail(ss))

\* array[k] = v of JavaScript (k is 0-based): a write past the end grows
\* the array and leaves holes.
SetAt(array, k, v) ==
  IF k < Len(array)
    THEN [array EXCEPT ![k + 1] = v]
    ELSE array \o [j \in 1..(k - Len(array)) |-> Undefined] \o <<v>>

(***************************************************************************)
(* The GeoJSON inputs.  A position is <<lng, lat>>, a ring a sequence of   *)
(* positions, the coordinates of a Polygon a sequence of rings and the     *)
(* coordinates of a MultiPolygon a sequence of such ring sets.             *)
(***************************************************************************)
TriRing == << <<0, 0>>, <<45, 0>>, <<0, 45>> >>
TriRing2 == << <<90, 0>>, <<135, 0>>, <<90, 45>> >>
QuadRing == << <<0, 0>>, <<45, 0>>, <<45, 45>>, <<0, 45>> >>
EightRing == << <<0, 0>>, <<45, 45>>, <<45, 0>>, <<0, 45>> >>

PointA == [type |-> "Point", coordinates |-> <<0, 0>>]
PointB == [type |-> "Point", coordinates |-> <<225, 60>>]
LineA == [type |-> "LineString", coordinates |-> << <<0, 0>>, <<45, 45>> >>]
PolyTri == [type |-> "Polygon", coordinates |-> <<TriRing>>]
PolyQuad == [type |-> "Polygon", coordinates |-> <<QuadRing>>]
PolyEight == [type |-> "Polygon", coordinates |-> <<EightRing>>]
MultiTwo == [type |-> "MultiPolygon", coordinates |-> << <<TriRing>>, <<TriRing2>> >>]
MultiEight == [type |-> "MultiPolygon", coordinates |-> << <<TriRing>>, <<EightRing>> >>]

Geometries == {PointA, PointB, LineA, PolyTri, PolyQuad, PolyEight, MultiTwo, MultiEight}

\* data.features of a payload: every feature arrives with an empty
\* property bag.
Payloads == UNION {[1..n -> Geometries] : n \in 1..MaxFeatures}

Palette == {Blue, Green}

(***************************************************************************)
(* The tesselator (libtess.GluTesselator).  For a ring set it either       *)
(* reports a fatal error through the GLU_TESS_ERROR callback or emits the  *)
(* corners of its triangles, three per triangle, through the               *)
(* GLU_TESS_VERTEX_DATA callback.  A simple ring of N vertices is emitted  *)
(* as the N - 2 triangles of the fan around its first vertex.              *)
(***************************************************************************)
TessFatal(coordinates) == \E r \in 1..Len(coordinates) : coordinates[r] = EightRing

Tesselate(vertices) ==
  LET n == Len(vertices)
  IN Flatten([t \in 1..(n - 2) |-> <<vertices[1], vertices[t + 1], vertices[t + 2]>>])

(***************************************************************************)
(* The tesselator callbacks.                                               *)
(***************************************************************************)
\* Variant of vertexCallback_: the color float is not appended.
vertexCallback_noColor(data, polyVertArray) ==
  polyVertArray \o <<data[1], data[2]>>

vertexCallback_(data, polyVertArray) ==
  polyVertArray \o <<data[1], data[2], packColor(Red)>>

RECURSIVE EmitVertices(_, _)
EmitVertices(emitted, polyVertArray) ==
  IF emitted = <<>> THEN polyVertArray
  ELSE EmitVertices(Tail(emitted), vertexCallback_(Head(emitted), polyVertArray))

\* errorCallback_ throws: the exception leaves processPolygon and loadData.
errorCallback_(errno) == TRUE

(***************************************************************************)
(* processPolygon(coordinates) on the polygons record P.  The result is    *)
(* the record after the call and whether the call threw.                   *)
(***************************************************************************)
BorderPoints(coordinates) ==
  Flatten([k \in 1..Len(Flatten(coordinates)) |->
             LET xy == coordsToXY_(Flatten(coordinates)[k])
             IN <<xy[1], xy[2], packColor(Black)>>])

\* Variants of processPolygon: the fill count assigned instead of added to,
\* and the border count advanced by floats instead of by vertices.
processPolygon_countAssigned(P, coordinates) ==
  LET borderPoints == BorderPoints(coordinates)
      adj == [k \in 1..Len(Flatten(coordinates)) |-> coordsToXY_(Flatten(coordinates)[k])]
      polyVerts == EmitVertices(Tesselate(adj), <<>>)
  IN IF TessFatal(coordinates)
       THEN [threw |-> errorCallback_(0), polygons |-> P]
       ELSE [threw |-> FALSE,
             polygons |-> [P EXCEPT
                !.borderFloats = @ \o borderPoints,
                !.borderCount = @ + Len(borderPoints) \div 3,
                !.floats = @ \o polyVerts,
                !.count = Len(polyVerts) \div 3]]

processPolygon_borderByFloats(P, coordinates) ==
  LET borderPoints == BorderPoints(coordinates)
      adj == [k \in 1..Len(Flatten(coordinates)) |-> coordsToXY_(Flatten(coordinates)[k])]
      polyVerts == EmitVertices(Tesselate(adj), <<>>)
  IN IF TessFatal(coordinates)
       THEN [threw |-> errorCallback_(0), polygons |-> P]
       ELSE [threw |-> FALSE,
             polygons |-> [P EXCEPT
                !.borderFloats = @ \o borderPoints,
                !.borderCount = @ + Len(borderPoints),
                !.floats = @ \o polyVerts,
                !.count = @ + Len(polyVerts) \div 3]]

processPolygon(P, coordinates) ==
  LET borderPoints == BorderPoints(coordinates)
      adj == [k \in 1..Len(Flatten(coordinates)) |-> coordsToXY_(Flatten(coordinates)[k])]
      polyVerts == EmitVertices(Tesselate(adj), <<>>)
  IN IF TessFatal(coordinates)
       THEN [threw |-> errorCallback_(0), polygons |-> P]
       ELSE [threw |-> FALSE,
             polygons |-> [P EXCEPT
                !.borderFloats = @ \o borderPoints,
                !.borderCount = @ + Len(borderPoints) \div 3,
                !.floats = @ \o polyVerts,
                !.count = @ + Len(polyVerts) \div 3]]

(***************************************************************************)
(* loadData(data).  The loop state is the feature buffers F, the feature   *)
(* objects seen so far (lg) and whether an exception is propagating.  A    *)
(* feature object is recorded with its geometry, its property bag, whether *)
(* onAddFeature was called with it, and the array lengths measured when    *)
(* its iteration began (pre) and ended (post), with polygons.count.  hk    *)
(* holds the calls of onAddFeature: the feature object as it was passed.   *)
(***************************************************************************)
onAddFeature(hk, geometry, properties) ==
  Append(hk, [geometry |-> geometry, properties |-> properties])

Lengths(F) ==
  [points |-> Len(F.points.floats),
   count |-> F.polygons.count,
   fill |-> Len(F.polygons.floats),
   border |-> Len(F.polygons.borderFloats),
   borderCounts |-> Len(F.polygons.borderCounts)]

Seen(geometry, properties, added, F0, F1) ==
  [geometry |-> geometry, properties |-> properties, added |-> added,
   pre |-> Lengths(F0), post |-> Lengths(F1)]

\* Variant of the loop over the parts: the running border count is pushed
\* instead of the count of the part.
RECURSIVE processParts_total(_, _, _)
processParts_total(P, coordinates, j) ==
  IF j > Len(coordinates) THEN [threw |-> FALSE, polygons |-> P]
  ELSE LET r == processPolygon(P, coordinates[j])
       IN IF r.threw THEN r
          ELSE processParts_total(
                 [r.polygons EXCEPT !.borderCounts = Append(@, r.polygons.borderCount)],
                 coordinates, j + 1)

\* The loop over the parts of a MultiPolygon, from part j on.
RECURSIVE processParts(_, _, _)
processParts(P, coordinates, j) ==
  IF j > Len(coordinates) THEN [threw |-> FALSE, polygons |-> P]
  ELSE LET borderCount == P.borderCount
           r == processPolygon(P, coordinates[j])
       IN IF r.threw THEN r
          ELSE processParts(
                 [r.polygons EXCEPT !.borderCounts =
                     Append(@, r.polygons.borderCount - borderCount)],
                 coordinates, j + 1)

\* Variant of the Point case: the count is incremented before it is stamped.
loadPoint_preIncrement(S, geometry) ==
  LET xy == coordsToXY_(geometry.coordinates)
      F == S.F
      F1 == [F EXCEPT
               !.points.floats = @ \o <<xy[1], xy[2], packColor(F.points.defaultColor)>>,
               !.points.count = @ + 1,
               !.points.changed = TRUE]
      properties == "index" :> F1.points.count
  IN [F |-> F1, threw |-> FALSE,
      lg |-> Append(S.lg, Seen(geometry, properties, TRUE, F, F1)),
      hk |-> onAddFeature(S.hk, geometry, properties)]

loadPoint(S, geometry) ==
  LET xy == coordsToXY_(geometry.coordinates)
      F == S.F
      F1 == [F EXCEPT
               !.points.floats = @ \o <<xy[1], xy[2], packColor(F.points.defaultColor)>>,
               !.points.count = @ + 1,
               !.points.changed = TRUE]
      properties == "index" :> F.points.count
  IN [F |-> F1, threw |-> FALSE,
      lg |-> Append(S.lg, Seen(geometry, properties, TRUE, F, F1)),
      hk |-> onAddFeature(S.hk, geometry, properties)]

\* Variant of the Polygon case: the running border count is pushed instead
\* of the count of the polygon.
loadPolygon_total(S, geometry) ==
  LET F == S.F
      started == "indexStart" :> F.polygons.count
      r == processPolygon(F.polygons, geometry.coordinates)
      P1 == [r.polygons EXCEPT
               !.borderCounts = Append(@, r.polygons.borderCount),
               !.changed = TRUE]
      F1 == [F EXCEPT !.polygons = P1]
  IN IF r.threw
       THEN [F |-> F, threw |-> TRUE, hk |-> S.hk,
             lg |-> Append(S.lg, Seen(geometry, started, FALSE, F, F))]
       ELSE [F |-> F1, threw |-> FALSE,
             lg |-> Append(S.lg,
                      Seen(geometry, started @@ ("indexEnd" :> P1.count), TRUE, F, F1)),
             hk |-> onAddFeature(S.hk, geometry, started @@ ("indexEnd" :> P1.count))]

loadPolygon(S, geometry) ==
  LET F == S.F
      started == "indexStart" :> F.polygons.count
      borderCount == F.polygons.borderCount
      r == processPolygon(F.polygons, geometry.coordinates)
      P1 == [r.polygons EXCEPT
               !.borderCounts = Append(@, r.polygons.borderCount - borderCount),
               !.changed = TRUE]
      F1 == [F EXCEPT !.polygons = P1]
  IN IF r.threw
       THEN [F |-> F, threw |-> TRUE, hk |-> S.hk,
             lg |-> Append(S.lg, Seen(geometry, started, FALSE, F, F))]
       ELSE [F |-> F1, threw |-> FALSE,
             lg |-> Append(S.lg,
                      Seen(geometry, started @@ ("indexEnd" :> P1.count), TRUE, F, F1)),
             hk |-> onAddFeature(S.hk, geometry, started @@ ("indexEnd" :> P1.count))]

\* Variant of the MultiPolygon case: onAddFeature is called before
\* indexEnd is stamped.
loadMultiPolygon_hookEarly(S, geometry) ==
  LET F == S.F
      started == "indexStart" :> F.polygons.count
      r == processParts(F.polygons, geometry.coordinates, 1)
      Fthrown == [F EXCEPT !.polygons = r.polygons]
      P1 == [r.polygons EXCEPT !.changed = TRUE]
      F1 == [F EXCEPT !.polygons = P1]
  IN IF r.threw
       THEN [F |-> Fthrown, threw |-> TRUE, hk |-> onAddFeature(S.hk, geometry, started),
             lg |-> Append(S.lg, Seen(geometry, started, FALSE, F, Fthrown))]
       ELSE [F |-> F1, threw |-> FALSE,
             lg |-> Append(S.lg,
                      Seen(geometry, started @@ ("indexEnd" :> P1.count), TRUE, F, F1)),
             hk |-> onAddFeature(S.hk, geometry, started)]

loadMultiPolygon(S, geometry) ==
  LET F == S.F
      started == "indexStart" :> F.polygons.count
      r == processParts(F.polygons, geometry.coordinates, 1)
      Fthrown == [F EXCEPT !.polygons = r.polygons]
      P1 == [r.polygons EXCEPT !.changed = TRUE]
      F1 == [F EXCEPT !.polygons = P1]
  IN IF r.threw
       THEN [F |-> Fthrown, threw |-> TRUE, hk |-> S.hk,
             lg |-> Append(S.lg, Seen(geometry, started, FALSE, F, Fthrown))]
       ELSE [F |-> F1, threw |-> FALSE,
             lg |-> Append(S.lg,
                      Seen(geometry, started @@ ("indexEnd" :> P1.count), TRUE, F, F1)),
             hk |-> onAddFeature(S.hk, geometry, started @@ ("indexEnd" :> P1.count))]

\* Variant of the switch: a default case that throws.
loadFeature_defaultThrows(S, geometry) ==
  CASE geometry.type = "Point" -> loadPoint(S, geometry)
    [] geometry.type = "Polygon" -> loadPolygon(S, geometry)
    [] geometry.type = "MultiPolygon" -> loadMultiPolygon(S, geometry)
    [] OTHER -> [S EXCEPT !.lg = Append(@, Seen(geometry, <<>>, FALSE, S.F, S.F)),
                          !.threw = TRUE]

\* One iteration of the loop: the switch on geometry.type.
loadFeature(S, geometry) ==
  CASE geometry.type = "Point" -> loadPoint(S, geometry)
    [] geometry.type = "Polygon" -> loadPolygon(S, geometry)
    [] geometry.type = "MultiPolygon" -> loadMultiPolygon(S, geometry)
    [] OTHER -> [S EXCEPT !.lg = Append(@, Seen(geometry, <<>>, FALSE, S.F, S.F))]

RECURSIVE loadFeatures(_, _, _)
loadFeatures(S, data, i) ==
  IF i > Len(data) THEN S
  ELSE LET S1 == loadFeature(S, data[i])
       IN IF S1.threw THEN S1 ELSE loadFeatures(S1, data, i + 1)

loadData(F, lg, hk, data) ==
  loadFeatures([F |-> F, lg |-> lg, hk |-> hk, threw |-> FALSE], data, 1)

(***************************************************************************)
(* changePointColor and changePolyColor on the float arrays.               *)
(***************************************************************************)
changePointColor_nextSlot(floats, idx, color) == SetAt(floats, idx * 3 + 3, packColor(color))

changePointColor(floats, idx, color) == SetAt(floats, idx * 3 + 2, packColor(color))

\* The loop condition of changePolyColor.
PolyLoopTest(i, idxEnd) == i <= idxEnd

RECURSIVE changePolyColor(_, _, _, _)
changePolyColor(floats, i, idxEnd, color) ==
  IF PolyLoopTest(i, idxEnd)
    THEN changePolyColor(SetAt(floats, i * 3 + 2, packColor(color)), i + 1, idxEnd, color)
    ELSE floats

(***************************************************************************)
(* The state.  features_ is this.features_; gl_ holds the data of the      *)
(* three WebGL buffers as last handed to bufferData; log holds the feature *)
(* objects loadData has seen, in order; op describes the last call and     *)
(* calls counts the calls made.  map_ is what the map and the canvas layer *)
(* report: the zoom, the corners of the bounds and the top left position.  *)
(* xhr holds the URLs of the requests in flight, sent the URLs in the      *)
(* order of their req.send() and responses the completed requests.  hooked *)
(* holds the calls of onAddFeature; scheduled tells whether the canvas     *)
(* layer holds a request for an update in the next animation frame, as it  *)
(* does once start() has run.  The two matrices are Float32Arrays of 16   *)
(* entries, here with integer entries.                                     *)
(***************************************************************************)
WorldBox == [sw |-> <<0 - 180, 0 - 45>>, ne |-> <<135, 85>>, topLeft |-> <<0 - 180, 85>>]

LayerInit ==
  /\ features_ =
       [points |-> [defaultColor |-> Red, floats |-> <<>>, count |-> 0, changed |-> FALSE],
        polygons |-> [floats |-> <<>>, count |-> 0, borderFloats |-> <<>>,
                      borderCount |-> 0, borderCounts |-> <<>>, changed |-> FALSE]]
  /\ gl_ = [buffer |-> <<>>, borderbuffer |-> <<>>, points |-> <<>>]
  /\ log = <<>>
  /\ op = [name |-> "new"]
  /\ calls = 0
  /\ tilebase = Null
  /\ zoomlock = 0
  /\ tilecache_ = {}
  /\ map_ = [zoom |-> 0, sw |-> WorldBox.sw, ne |-> WorldBox.ne, topLeft |-> WorldBox.topLeft]
  /\ xhr = {}
  /\ sent = <<>>
  /\ responses = <<>>
  /\ hooked = <<>>
  /\ pixelsToWebGLMatrix_ = [i \in 1..16 |-> 0]
  /\ mapMatrix_ = [i \in 1..16 |-> 0]
  /\ scheduled = TRUE

Init ==
  /\ LayerInit
  /\ arg = <<>>
  /\ ret = Undefined
  /\ pp = [pc |-> "idle"]

\* this.scheduleUpdate() as the last statement of a call: it is reached
\* unless an exception left the call before it.  The canvas layer keeps one
\* pending request for the next animation frame.
scheduleUpdate(pending, threw) == IF threw THEN pending ELSE TRUE

LoadData(data) ==
  LET S1 == loadData(features_, log, hooked, data)
  IN /\ calls < MaxCalls
     /\ Len(S1.lg) <= MaxLog
     /\ features_' = S1.F
     /\ log' = S1.lg
     /\ hooked' = S1.hk
     /\ op' = [name |-> "loadData", data |-> data, threw |-> S1.threw,
               seen |-> Len(S1.lg) - Len(log)]
     /\ calls' = calls + 1
     /\ scheduled' = scheduleUpdate(scheduled, S1.threw)
     /\ UNCHANGED <<gl_, tileVars, map_, mapMatrix_, otherVars>>

\* The indices the stamped metadata offers to a caller.
PointIndices == {log[k].properties.index :
                   k \in {j \in 1..Len(log) : "index" \in DOMAIN log[j].properties}}

PolyRanges == {<<log[k].properties.indexStart, log[k].properties.indexEnd>> :
                 k \in {j \in 1..Len(log) : "indexEnd" \in DOMAIN log[j].properties}}

ChangePointColor(idx, color) ==
  /\ calls < MaxCalls
  /\ features_' = [features_ EXCEPT
       !.points.floats = changePointColor(@, idx, color),
       !.points.changed = TRUE]
  /\ op' = [name |-> "changePointColor", idx |-> idx, color |-> color]
  /\ calls' = calls + 1
  /\ scheduled' = scheduleUpdate(scheduled, FALSE)
  /\ UNCHANGED <<gl_, log, tileVars, map_, hooked, mapMatrix_, otherVars>>

ChangePolyColor(idxStart, idxEnd, color) ==
  /\ calls < MaxCalls
  /\ features_' = [features_ EXCEPT
       !.polygons.floats = changePolyColor(@, idxStart, idxEnd, color),
       !.polygons.changed = TRUE]
  /\ op' = [name |-> "changePolyColor", idxStart |-> idxStart, idxEnd |-> idxEnd,
            color |-> color]
  /\ calls' = calls + 1
  /\ scheduled' = scheduleUpdate(scheduled, FALSE)
  /\ UNCHANGED <<gl_, log, tileVars, map_, hooked, mapMatrix_, otherVars>>

(***************************************************************************)
(* The view transform of update.  A matrix is the sequence of its 16       *)
(* entries, entry i of JavaScript at position i + 1.                       *)
(***************************************************************************)
RECURSIVE Pow2(_)
Pow2(n) == IF n = 0 THEN 1 ELSE 2 * Pow2(n - 1)

scaleMatrix_(matrix, scaleX, scaleY) ==
  [i \in 1..16 |-> IF i <= 4 THEN matrix[i] * scaleX
                   ELSE IF i <= 8 THEN matrix[i] * scaleY
                   ELSE matrix[i]]

translateMatrix_(matrix, tx, ty) ==
  [i \in 1..16 |-> IF i >= 13 THEN matrix[i] + matrix[i - 12] * tx + matrix[i - 8] * ty
                   ELSE matrix[i]]

scale_linear(zoom) == 2 * zoom

\* Math.pow(2, this.map_.getZoom())
scale(zoom) == Pow2(zoom)

\* The projection of the map: world coordinates of a position.
fromLatLngToPoint(latLng) == coordsToXY_(latLng)

viewTransform_noCopy(mapMatrix, pixelsToWebGLMatrix, map) ==
  LET offset == fromLatLngToPoint(map.topLeft)
  IN translateMatrix_(scaleMatrix_(mapMatrix, scale(map.zoom), scale(map.zoom)),
                      0 - offset[1], 0 - offset[2])

\* Lines 582 to 591: the map matrix after the copy, the scale and the
\* translation; mapMatrix is this.mapMatrix_ before the call.
viewTransform(mapMatrix, pixelsToWebGLMatrix, map) ==
  LET copy == pixelsToWebGLMatrix
      offset == fromLatLngToPoint(map.topLeft)
  IN translateMatrix_(scaleMatrix_(copy, scale(map.zoom), scale(map.zoom)),
                      0 - offset[1], 0 - offset[2])

resolutionScale_ == 1

\* The matrix resize_ sets for a canvas of the given size.
resize_(canvasWidth, canvasHeight) ==
  <<(2 * resolutionScale_) \div canvasWidth, 0, 0, 0,
    0, (0 - 2 * resolutionScale_) \div canvasHeight, 0, 0,
    0, 0, 0, 0,
    0 - 1, 1, 0, 1>>

(***************************************************************************)
(* loadTiles.  A tile URL tilebase + zoom/row/col.geojson is the tuple     *)
(* <<tilebase, zoom, row, col>>.  A zoomlock of null is the number 0, which *)
(* if(this.zoomlock) treats alike.  The result is the cache after the call *)
(* and the URLs whose request was sent, in the order of the two loops.     *)
(***************************************************************************)
\* The row term of loc2Tiles, (1 - ln(tan(lat) + 1 / cos(lat)) / pi) / 2, is
\* latToY_(lat) / 256.
loc2Tiles(loc, zoom) ==
  <<((loc[1] + 180) * Pow2(zoom)) \div 360, (latToY_(loc[2]) * Pow2(zoom)) \div 256>>

TileUrls(base, lock, map) ==
  LET zoom == IF lock # 0 THEN lock ELSE map.zoom
      bottomLeft == loc2Tiles(map.sw, zoom)
      topRight == loc2Tiles(map.ne, zoom)
      rows == topRight[1] - bottomLeft[1] + 1
      cols == bottomLeft[2] - topRight[2] + 1
  IN IF rows <= 0 \/ cols <= 0 THEN <<>>
     ELSE [k \in 1..(rows * cols) |->
             <<base, zoom, bottomLeft[1] + ((k - 1) \div cols), topRight[2] + ((k - 1) % cols)>>]

\* Variant of loadTiles: the cache is not consulted.
loadTiles_uncached(cache, base, lock, map) ==
  LET urls == TileUrls(base, lock, map)
  IN [tilecache |-> cache \cup {urls[k] : k \in 1..Len(urls)},
      requested |-> urls,
      visited |-> urls]

loadTiles(cache, base, lock, map) ==
  LET urls == SelectSeq(TileUrls(base, lock, map), LAMBDA url : url \notin cache)
  IN [tilecache |-> cache \cup {urls[k] : k \in 1..Len(urls)},
      requested |-> urls,
      visited |-> TileUrls(base, lock, map)]

(***************************************************************************)
(* update: the uploads and the draw calls.  bufferData is recorded in      *)
(* op.uploads, the LINE_LOOP draws in op.lineLoops as <<first, count>>,    *)
(* the URLs the loops of loadTiles visited in op.tiles.                    *)
(***************************************************************************)
RECURSIVE LineLoops(_, _)
LineLoops(borderCounts, seen) ==
  IF borderCounts = <<>> THEN <<>>
  ELSE <<<<seen, Head(borderCounts)>>>> \o LineLoops(Tail(borderCounts), seen + Head(borderCounts))

\* Variant of update: polygons.changed is cleared after the fill upload, so
\* the border buffer is never uploaded.
update_clearedEarly(F, gl) ==
  LET polygons == F.polygons
      points == F.points
      fill == polygons.changed
      border == FALSE
      pts == points.changed
  IN [gl |-> [buffer |-> IF fill THEN polygons.floats ELSE gl.buffer,
              borderbuffer |-> IF border THEN polygons.borderFloats ELSE gl.borderbuffer,
              points |-> IF pts THEN points.floats ELSE gl.points],
      F |-> [F EXCEPT
               !.polygons.changed = IF fill THEN FALSE ELSE @,
               !.points.changed = IF pts THEN FALSE ELSE @],
      uploads |-> (IF fill THEN {"buffer"} ELSE {})
                    \cup (IF border THEN {"borderbuffer"} ELSE {})
                    \cup (IF pts THEN {"points"} ELSE {}),
      triangles |-> polygons.count,
      lineLoops |-> LineLoops(polygons.borderCounts, 0),
      pointsDrawn |-> points.count]

update(F, gl) ==
  LET polygons == F.polygons
      points == F.points
      fill == polygons.changed
      \* polygons.changed is still set when the border buffer is bound
      border == polygons.changed
      pts == points.changed
  IN [gl |-> [buffer |-> IF fill THEN polygons.floats ELSE gl.buffer,
              borderbuffer |-> IF border THEN polygons.borderFloats ELSE gl.borderbuffer,
              points |-> IF pts THEN points.floats ELSE gl.points],
      F |-> [F EXCEPT
               !.polygons.changed = IF border THEN FALSE ELSE @,
               !.points.changed = IF pts THEN FALSE ELSE @],
      uploads |-> (IF fill THEN {"buffer"} ELSE {})
                    \cup (IF border THEN {"borderbuffer"} ELSE {})
                    \cup (IF pts THEN {"points"} ELSE {}),
      triangles |-> polygons.count,
      lineLoops |-> LineLoops(polygons.borderCounts, 0),
      pointsDrawn |-> points.count]

UpdateEffect ==
  LET r == update(features_, gl_)
      t == IF tilebase # Null
             THEN loadTiles(tilecache_, tilebase, zoomlock, map_)
             ELSE [tilecache |-> tilecache_, requested |-> <<>>, visited |-> <<>>]
  IN /\ mapMatrix_' = viewTransform(mapMatrix_, pixelsToWebGLMatrix_, map_)
     /\ tilecache_' = t.tilecache
     /\ sent' = sent \o t.requested
     /\ xhr' = xhr \cup {t.requested[k] : k \in 1..Len(t.requested)}
     /\ gl_' = r.gl
     /\ features_' = r.F
     /\ op' = [name |-> "update", uploads |-> r.uploads, triangles |-> r.triangles,
               lineLoops |-> r.lineLoops, pointsDrawn |-> r.pointsDrawn,
               tiles |-> t.visited]
     /\ UNCHANGED <<log, tilebase, zoomlock, responses, map_, hooked, otherVars>>

\* update() called by the canvas layer when the map moved or was resized.
Update ==
  /\ calls < MaxCalls
  /\ calls' = calls + 1
  /\ UpdateEffect
  /\ UNCHANGED scheduled

\* update() called by the canvas layer in the animation frame that a
\* scheduleUpdate requested.
Frame ==
  /\ scheduled
  /\ scheduled' = FALSE
  /\ UpdateEffect
  /\ UNCHANGED calls

(***************************************************************************)
(* The tile server: the assignment of tilebase and zoomlock by the user,   *)
(* the map moving, and the onreadystatechange handler of a request         *)
(* reaching readyState 4.                                                  *)
(***************************************************************************)
TileBase == "tiles/"

SetTileServer(lock) ==
  /\ tilebase = Null
  /\ tilebase' = TileBase
  /\ zoomlock' = lock
  /\ UNCHANGED <<features_, gl_, log, op, calls, tilecache_, xhr, sent, responses,
               map_, hooked, mapMatrix_, otherVars, scheduled>>

SetView(view) ==
  /\ map_ # view
  /\ map_' = view
  /\ UNCHANGED <<features_, gl_, log, op, calls, tileVars, hooked, mapMatrix_, otherVars,
                 scheduled>>

\* The views of the tile scenarios and what the server answers with a 200.
NorthWestBox == [sw |-> <<0 - 180, 45>>, ne |-> <<0 - 135, 60>>, topLeft |-> <<0 - 180, 60>>]
NorthBox == [sw |-> <<0 - 180, 45>>, ne |-> <<135, 60>>, topLeft |-> <<0 - 180, 60>>]

View(zoom, box) == [zoom |-> zoom, sw |-> box.sw, ne |-> box.ne, topLeft |-> box.topLeft]

TileViews == {View(0, WorldBox), View(1, NorthWestBox), View(1, NorthBox)}

TilePayload(url) ==
  CASE url[2] = 0 -> <<PointA, PolyTri>>
    [] url[2] = 1 /\ url[3] = 0 /\ url[4] = 0 -> <<MultiEight, PointB>>
    [] url[2] = 1 /\ url[3] = 1 /\ url[4] = 0 -> <<PolyQuad>>
    [] OTHER -> <<LineA, PointB>>

XhrDone(url, status) ==
  LET data == TilePayload(url)
      S1 == loadData(features_, log, hooked, data)
  IN /\ url \in xhr
     /\ xhr' = xhr \ {url}
     /\ responses' = Append(responses, [url |-> url, status |-> status])
     /\ IF status = 200
          THEN /\ features_' = S1.F
               /\ log' = S1.lg
               /\ hooked' = S1.hk
               /\ op' = [name |-> "loadData", data |-> data, threw |-> S1.threw,
                         seen |-> Len(S1.lg) - Len(log)]
               /\ scheduled' = scheduleUpdate(scheduled, S1.threw)
          ELSE /\ op' = [name |-> "xhr", status |-> status]
               /\ UNCHANGED <<features_, log, hooked, scheduled>>
     /\ UNCHANGED <<gl_, calls, tilebase, zoomlock, tilecache_, sent, map_, mapMatrix_, otherVars>>

TileNext ==
  \/ \E lock \in {0, 1} : SetTileServer(lock)
  \/ \E view \in TileViews : SetView(view)
  \/ Update
  \/ \E url \in xhr, status \in {200, 404} : XhrDone(url, status)

TileSpec == Init /\ [][TileNext]_vars

(***************************************************************************)
(* The canvas: resize_ called by the canvas layer, and the map moving.     *)
(***************************************************************************)
CanvasSizes == {1, 2}

Resize(canvasWidth, canvasHeight) ==
  /\ pixelsToWebGLMatrix_ # resize_(canvasWidth, canvasHeight)
  /\ pixelsToWebGLMatrix_' = resize_(canvasWidth, canvasHeight)
  /\ UNCHANGED <<features_, gl_, log, op, calls, tileVars, map_, hooked, mapMatrix_,
                 arg, ret, pp, scheduled>>

CenterBox == [sw |-> <<0, 0>>, ne |-> <<135, 45>>, topLeft |-> <<0, 45>>]

Views == {View(zoom, box) : zoom \in 0..MaxZoom, box \in {WorldBox, NorthBox, CenterBox}}

ViewNext ==
  \/ \E canvasWidth \in CanvasSizes, canvasHeight \in CanvasSizes :
       Resize(canvasWidth, canvasHeight)
  \/ \E view \in Views : SetView(view)
  \/ Update

ViewSpec == Init /\ [][ViewNext]_vars

(***************************************************************************)
(* packColor applied on its own to a color; a channel is its numerator     *)
(* over 256, on the quantization grid when even.                           *)
(***************************************************************************)
Channels == {0, 1, 2, 3, 127, 128, 129, 255, 256}

Colors == {<<r, g, b>> : r \in Channels, g \in Channels, b \in Channels}

\* float2color of the fragment shader, the color as <<r, g, b>>.
float2color(value) ==
  <<2 * (value % c_precisionp1),
    2 * (value \div (c_precisionp1 * c_precisionp1)),
    2 * ((value \div c_precisionp1) % c_precisionp1)>>

PackInit ==
  /\ LayerInit
  /\ arg \in Colors
  /\ ret = Undefined
  /\ pp = [pc |-> "idle"]

PackColor ==
  /\ ret = Undefined
  /\ ret' = packColor(arg)
  /\ UNCHANGED <<features_, gl_, log, op, calls, tileVars, map_, hooked, mapMatrix_,
                 pixelsToWebGLMatrix_, arg, pp, scheduled>>

PackSpec == PackInit /\ [][PackColor]_vars

(***************************************************************************)
(* processPolygon run statement by statement on the ring set arg.  pp is   *)
(* its activation: the position (pc), the ring set, the index of the       *)
(* contour and of the vertex the two maps are at, borderPoints, polyVerts, *)
(* and tess, the calls the tesselator has received so far.                 *)
(***************************************************************************)
Rings == {TriRing, TriRing2, QuadRing, EightRing}

RingSets == {<<r>> : r \in Rings} \cup {<<r1, r2>> : r1 \in Rings, r2 \in Rings}

TessInit ==
  /\ LayerInit
  /\ arg \in RingSets
  /\ ret = Undefined
  /\ pp = [pc |-> "idle"]

TessFrame == UNCHANGED <<gl_, log, op, calls, tileVars, map_, hooked, mapMatrix_,
                         pixelsToWebGLMatrix_, arg, ret, scheduled>>

\* Lines 474 to 478.
gluTessBeginPolygon ==
  /\ pp.pc = "idle"
  /\ pp' = [pc |-> "contours", coordinates |-> arg, contour |-> 1, vertex |-> 1,
            borderPoints |-> <<>>, polyVerts |-> <<>>, tess |-> << <<"beginPolygon">> >>]
  /\ UNCHANGED features_
  /\ TessFrame

\* Line 481: the outer map is at a contour.
gluTessBeginContour ==
  /\ pp.pc = "contours"
  /\ pp.contour <= Len(pp.coordinates)
  /\ pp' = [pp EXCEPT !.pc = "vertices", !.vertex = 1,
                      !.tess = Append(@, <<"beginContour">>)]
  /\ UNCHANGED features_
  /\ TessFrame

\* Variant of the inner map: it visits the last vertex of the contour first.
gluTessVertex_lastFirst ==
  /\ pp.pc = "vertices"
  /\ pp.vertex <= Len(pp.coordinates[pp.contour])
  /\ LET contour == pp.coordinates[pp.contour]
         xy == coordsToXY_(contour[Len(contour) + 1 - pp.vertex])
         adj == <<xy[1], xy[2], 0>>
     IN pp' = [pp EXCEPT !.vertex = @ + 1,
                         !.borderPoints = @ \o <<xy[1], xy[2], packColor(Black)>>,
                         !.tess = Append(@, <<"vertex", adj>>)]
  /\ UNCHANGED features_
  /\ TessFrame

\* Lines 483 to 490: the inner map is at a vertex of the contour.
gluTessVertex ==
  /\ pp.pc = "vertices"
  /\ pp.vertex <= Len(pp.coordinates[pp.contour])
  /\ LET xy == coordsToXY_(pp.coordinates[pp.contour][pp.vertex])
         adj == <<xy[1], xy[2], 0>>
     IN pp' = [pp EXCEPT !.vertex = @ + 1,
                         !.borderPoints = @ \o <<xy[1], xy[2], packColor(Black)>>,
                         !.tess = Append(@, <<"vertex", adj>>)]
  /\ UNCHANGED features_
  /\ TessFrame

\* Line 493: the inner map is through.
gluTessEndContour ==
  /\ pp.pc = "vertices"
  /\ pp.vertex > Len(pp.coordinates[pp.contour])
  /\ pp' = [pp EXCEPT !.pc = "contours", !.contour = @ + 1,
                      !.tess = Append(@, <<"endContour">>)]
  /\ UNCHANGED features_
  /\ TessFrame

\* Line 496: the outer map is through.  The tesselator runs its callbacks
\* here: vertexCallback_ fills polyVerts, or errorCallback_ throws.
gluTessEndPolygon ==
  /\ pp.pc = "contours"
  /\ pp.contour > Len(pp.coordinates)
  /\ LET adj == [k \in 1..Len(Flatten(pp.coordinates)) |->
                   coordsToXY_(Flatten(pp.coordinates)[k])]
     IN IF TessFatal(pp.coordinates)
          THEN /\ errorCallback_(0)
               /\ pp' = [pp EXCEPT !.pc = "thrown", !.tess = Append(@, <<"endPolygon">>)]
          ELSE pp' = [pp EXCEPT !.pc = "concat", !.tess = Append(@, <<"endPolygon">>),
                                !.polyVerts = EmitVertices(Tesselate(adj), <<>>)]
  /\ UNCHANGED features_
  /\ TessFrame

\* Lines 498 to 502.
Concat ==
  /\ pp.pc = "concat"
  /\ features_' = [features_ EXCEPT
       !.polygons.borderFloats = @ \o pp.borderPoints,
       !.polygons.borderCount = @ + Len(pp.borderPoints) \div 3,
       !.polygons.floats = @ \o pp.polyVerts,
       !.polygons.count = @ + Len(pp.polyVerts) \div 3]
  /\ pp' = [pp EXCEPT !.pc = "done"]
  /\ TessFrame

TessNext ==
  \/ gluTessBeginPolygon
  \/ gluTessBeginContour
  \/ gluTessVertex
  \/ gluTessEndContour
  \/ gluTessEndPolygon
  \/ Concat

TessSpec == TessInit /\ [][TessNext]_vars

Next ==
  \/ \E data \in Payloads : LoadData(data)
  \/ \E idx \in PointIndices, color \in Palette : ChangePointColor(idx, color)
  \/ \E range \in PolyRanges, color \in Palette : ChangePolyColor(range[1], range[2], color)
  \/ Update

Spec == Init /\ [][Next]_vars

(***************************************************************************)
(* The layer with its scheduling: the calls that change buffer contents,   *)
(* and the animation frames of the canvas layer, which runs every update   *)
(* that was scheduled.                                                     *)
(***************************************************************************)
LiveNext ==
  \/ \E data \in Payloads : LoadData(data)
  \/ \E idx \in PointIndices, color \in Palette : ChangePointColor(idx, color)
  \/ \E range \in PolyRanges, color \in Palette : ChangePolyColor(range[1], range[2], color)
  \/ Frame

LiveSpec == Init /\ [][LiveNext]_vars /\ WF_vars(Frame)

(***************************************************************************)
(* Properties.                                                             *)
(***************************************************************************)
HasRange(k) == "indexEnd" \in DOMAIN log[k].properties
HasStart(k) == "indexStart" \in DOMAIN log[k].properties
Ranged == {k \in 1..Len(log) : HasRange(k)}
Started == {k \in 1..Len(log) : HasStart(k)}

\* C1: in every reachable state a buffer whose content differs from what
\* was last uploaded has its dirty flag set.
C1_StaleBufferIsDirty ==
  /\ features_.points.floats # gl_.points => features_.points.changed
  /\ (\/ features_.polygons.floats # gl_.buffer
      \/ features_.polygons.borderFloats # gl_.borderbuffer)
       => features_.polygons.changed

\* C2: every stamped range has indexStart <= indexEnd, and the indexStart
\* of a polygon feature is >= the indexEnd of every polygon feature
\* ingested before it.
C2_RangesMonotone ==
  /\ \A k \in Ranged : log[k].properties.indexStart <= log[k].properties.indexEnd
  /\ \A k \in Started : \A j \in Ranged :
       j < k => log[k].properties.indexStart >= log[j].properties.indexEnd

C2_Witness ==
  \E j \in Ranged : \E k \in Ranged :
    /\ j < k
    /\ log[j].properties.indexStart < log[j].properties.indexEnd
    /\ log[k].properties.indexStart < log[k].properties.indexEnd

\* C3: the entries of borderCounts sum to the number of vertex triples of
\* the border array, also after a load in which a polygon failed to
\* tesselate, and the LINE_LOOP draws of update tile the border array.
C3_BorderCountsCoverBorder ==
  /\ 3 * SumSeq(features_.polygons.borderCounts) = Len(features_.polygons.borderFloats)
  /\ op.name = "update" =>
       /\ Len(op.lineLoops) = Len(features_.polygons.borderCounts)
       /\ \A i \in 1..Len(op.lineLoops) :
            /\ op.lineLoops[i][2] = features_.polygons.borderCounts[i]
            /\ op.lineLoops[i][1] =
                 IF i = 1 THEN 0 ELSE op.lineLoops[i - 1][1] + op.lineLoops[i - 1][2]
       /\ op.lineLoops # <<>> =>
            3 * (op.lineLoops[Len(op.lineLoops)][1] + op.lineLoops[Len(op.lineLoops)][2])
              = Len(features_.polygons.borderFloats)

C3_Witness ==
  /\ op.name = "update"
  /\ Len(op.lineLoops) = 1
  /\ \E k \in 1..Len(log) :
       /\ log[k].geometry.type = "MultiPolygon"
       /\ HasStart(k) /\ ~HasRange(k)

\* C4: changePolyColor(idxStart, idxEnd, color) overwrites the color of
\* exactly the fill triples with index in [idxStart, idxEnd), changes no
\* other float, keeps the length of the fill array and sets the polygons
\* dirty flag.
C4_Effect ==
  LET old == features_.polygons.floats
      new == features_'.polygons.floats
  IN op'.name = "changePolyColor" =>
       /\ Len(new) = Len(old)
       /\ \A k \in 1..Len(old) :
            new[k] = IF /\ (k - 1) % 3 = 2
                        /\ (k - 1) \div 3 >= op'.idxStart
                        /\ (k - 1) \div 3 < op'.idxEnd
                       THEN packColor(op'.color) ELSE old[k]
       /\ features_'.polygons.changed
       /\ features_' = [features_ EXCEPT !.polygons.floats = new,
                                         !.polygons.changed = TRUE]

C4_RecolorsHalfOpenRange == [][C4_Effect]_vars

\* C5: a polygon on which the tesselator reports a fatal error does not
\* abort loadData: no exception reaches the caller, and every feature that
\* follows it in the payload is seen by the loop and, when its type is
\* supported and it tesselates, stamped and handed to onAddFeature.
Supported(geometry) == geometry.type \in {"Point", "Polygon", "MultiPolygon"}

Fails(geometry) ==
  \/ geometry.type = "Polygon" /\ TessFatal(geometry.coordinates)
  \/ /\ geometry.type = "MultiPolygon"
     /\ \E j \in 1..Len(geometry.coordinates) : TessFatal(geometry.coordinates[j])

C5_FailureDoesNotAbort ==
  op.name = "loadData" =>
    LET n == Len(op.data)
    IN /\ ~op.threw
       /\ Len(log) >= n
       /\ \A i \in 1..n :
            LET e == log[Len(log) - n + i]
            IN /\ e.geometry = op.data[i]
               /\ Supported(op.data[i]) /\ ~Fails(op.data[i]) =>
                    e.added /\ e.properties # <<>>

\* C6: a Point feature adds exactly 3 floats to the points array and is
\* stamped with the number of points ingested before it, over all loadData
\* calls; the triple at that index holds its projected coordinates, and
\* changePointColor(index, c) overwrites the color of that triple and
\* nothing else.
PointsSeen == {k \in 1..Len(log) : log[k].geometry.type = "Point"}

C6_Stamped ==
  \A k \in PointsSeen :
    LET e == log[k]
        xy == coordsToXY_(e.geometry.coordinates)
        floats == features_.points.floats
    IN /\ "index" \in DOMAIN e.properties
       /\ e.properties.index = Cardinality({j \in PointsSeen : j < k})
       /\ e.post.points = e.pre.points + 3
       /\ e.pre.points = 3 * e.properties.index
       /\ Len(floats) >= e.post.points
       /\ floats[3 * e.properties.index + 1] = xy[1]
       /\ floats[3 * e.properties.index + 2] = xy[2]

C6_Recolor ==
  op'.name = "changePointColor" =>
    /\ 3 * op'.idx + 3 <= Len(features_.points.floats)
    /\ features_'.points.floats =
         [features_.points.floats EXCEPT ![3 * op'.idx + 3] = packColor(op'.color)]

C6_PointIndex == []C6_Stamped /\ [][C6_Recolor]_vars

C6_Witness ==
  /\ op.name = "changePointColor"
  /\ op.idx = 1
  /\ Cardinality(PointsSeen) = 2
  /\ features_.points.floats[6] = packColor(op.color)
  /\ features_.points.floats[3] = packColor(Red)

\* C7 as stated: for a Polygon of one ring of N vertices, indexEnd -
\* indexStart is the triangle count N - 2.
OneRing == {k \in Ranged : log[k].geometry.type = "Polygon"
                             /\ Len(log[k].geometry.coordinates) = 1}

RingSize(k) == Len(log[k].geometry.coordinates[1])

C7_TriangleCount ==
  \A k \in OneRing :
    log[k].properties.indexEnd - log[k].properties.indexStart = RingSize(k) - 2

\* C7 amended: for a Polygon of one ring of N vertices, indexEnd -
\* indexStart is the number of fill vertices appended for it, three per
\* triangle: 3 * (N - 2).
C7_FillVertexCount ==
  \A k \in OneRing :
    /\ 3 * (log[k].properties.indexEnd - log[k].properties.indexStart)
         = log[k].post.fill - log[k].pre.fill
    /\ log[k].properties.indexEnd - log[k].properties.indexStart
         = 3 * (RingSize(k) - 2)

C7_Witness ==
  \E k \in OneRing :
    /\ RingSize(k) = 4
    /\ log[k].properties.indexStart > 0
    /\ log[k].properties.indexEnd - log[k].properties.indexStart = 6

\* C8: a Polygon of one ring of N vertices appends exactly one entry to
\* borderCounts, equal to N, the number of vertices it appends to the
\* border array.
C8_OneBorderEntry ==
  \A k \in OneRing :
    /\ log[k].post.borderCounts = log[k].pre.borderCounts + 1
    /\ features_.polygons.borderCounts[log[k].post.borderCounts] = RingSize(k)
    /\ log[k].post.border - log[k].pre.border = 3 * RingSize(k)

C8_Witness ==
  \E k \in OneRing : log[k].pre.border > 0 /\ RingSize(k) = 4

\* C9: a MultiPolygon of k parts appends k entries to borderCounts, the
\* j-th being the vertex count of part j, and carries one range: indexStart
\* is polygons.count before the first part, indexEnd is polygons.count
\* after the last part, and the range is as long as the fill vertices
\* appended for all k parts.
Multi == {k \in Ranged : log[k].geometry.type = "MultiPolygon"}

C10_Update ==
  op'.name = "update" =>
    /\ features_.polygons.changed =>
         /\ {"buffer", "borderbuffer"} \subseteq op'.uploads
         /\ gl_'.buffer = features_.polygons.floats
         /\ gl_'.borderbuffer = features_.polygons.borderFloats
    /\ ~features_.polygons.changed =>
         /\ op'.uploads \cap {"buffer", "borderbuffer"} = {}
         /\ gl_'.buffer = gl_.buffer
         /\ gl_'.borderbuffer = gl_.borderbuffer
    /\ features_.points.changed =>
         "points" \in op'.uploads /\ gl_'.points = features_.points.floats
    /\ ~features_.points.changed =>
         "points" \notin op'.uploads /\ gl_'.points = gl_.points
    /\ ~features_'.polygons.changed
    /\ ~features_'.points.changed
    /\ op.name = "update" => op'.uploads = {} /\ gl_' = gl_

C10_UploadsOnce == [][C10_Update]_vars

C10_Witness ==
  /\ op.name = "update"
  /\ op.uploads = {}
  /\ calls = 3
  /\ gl_.buffer # <<>>
  /\ gl_.buffer = features_.polygons.floats
  /\ gl_.borderbuffer = features_.polygons.borderFloats

\* C11: every tile URL is requested at most once: the requests sent are
\* exactly the URLs of the cache, each sent once whatever its response
\* was, and the cache only grows.
Range(seq) == {seq[k] : k \in 1..Len(seq)}

C11_Sent ==
  /\ \A i \in 1..Len(sent) : \A j \in 1..Len(sent) : sent[i] = sent[j] => i = j
  /\ Range(sent) = tilecache_
  /\ xhr \subseteq tilecache_
  /\ \A i \in 1..Len(responses) : \A j \in 1..Len(responses) :
       responses[i].url = responses[j].url => i = j
  /\ \A i \in 1..Len(responses) :
       responses[i].url \in tilecache_ /\ responses[i].url \notin xhr

C11_Grows ==
  /\ tilecache_ \subseteq tilecache_'
  /\ Len(sent) <= Len(sent')
  /\ \A k \in 1..Len(sent) : sent'[k] = sent[k]

C11_TileRequestedOnce == []C11_Sent /\ [][C11_Grows]_vars

\* an update that visited a URL whose request had failed, and one whose
\* request had succeeded
C11_Witness ==
  /\ op.name = "update"
  /\ \E i \in 1..Len(responses) :
       responses[i].status = 404 /\ responses[i].url \in Range(op.tiles)
  /\ \E i \in 1..Len(responses) :
       responses[i].status = 200 /\ responses[i].url \in Range(op.tiles)

\* C12: onAddFeature is called exactly once for every feature that was
\* ingested, in the order of the payloads, with the feature carrying its
\* index (Point) or its indexStart and indexEnd (Polygon, MultiPolygon),
\* and for no other feature.
Ingested(e) ==
  \/ e.geometry.type = "Point" /\ e.post.points = e.pre.points + 3
  \/ /\ e.geometry.type = "Polygon"
     /\ e.post.borderCounts = e.pre.borderCounts + 1
  \/ /\ e.geometry.type = "MultiPolygon"
     /\ e.post.borderCounts = e.pre.borderCounts + Len(e.geometry.coordinates)

C12_HookedOncePerFeature ==
  LET ingested == SelectSeq(log, Ingested)
  IN /\ Len(hooked) = Len(ingested)
     /\ \A k \in 1..Len(hooked) :
          /\ hooked[k].geometry = ingested[k].geometry
          /\ hooked[k].properties = ingested[k].properties
          /\ hooked[k].geometry.type = "Point" =>
               DOMAIN hooked[k].properties = {"index"}
          /\ hooked[k].geometry.type # "Point" =>
               DOMAIN hooked[k].properties = {"indexStart", "indexEnd"}
     /\ op.name = "loadData" =>
          /\ op.seen <= Len(op.data)
          /\ \A i \in 1..op.seen : log[Len(log) - op.seen + i].geometry = op.data[i]

C12_Witness ==
  /\ op.name = "loadData"
  /\ op.threw
  /\ Len(op.data) = 2
  /\ Len(hooked) = 1
  /\ hooked[1].geometry.type = "MultiPolygon"
  /\ Len(log) = 2

\* C13: a feature whose type is not Point, Polygon or MultiPolygon is
\* skipped: its properties stay empty, nothing is thrown for it, no array,
\* count, borderCounts entry or flag changes during its iteration, and
\* loadData leaves the layer as the same payload without such features
\* would.
SupportedEntry(e) == Supported(e.geometry)

C13_Skip ==
  op'.name = "loadData" =>
    LET without == loadData(features_, SelectSeq(log, SupportedEntry), hooked,
                            SelectSeq(op'.data, Supported))
    IN /\ features_' = without.F
       /\ hooked' = without.hk
       /\ op'.threw = without.threw
       /\ SelectSeq(log', SupportedEntry) = without.lg
       /\ \A k \in 1..Len(log') :
            ~SupportedEntry(log'[k]) =>
              /\ log'[k].properties = <<>>
              /\ ~log'[k].added
              /\ log'[k].pre = log'[k].post

C13_UnsupportedSkipped == [][C13_Skip]_vars

C13_Witness ==
  /\ op.name = "loadData"
  /\ ~op.threw
  /\ Len(op.data) = 2
  /\ ~Supported(op.data[1])
  /\ Len(log) = 2
  /\ Ingested(log[2])
  /\ log[2].geometry.type = "Polygon"
  /\ log[2].properties.indexStart = 0

(***************************************************************************)
(* C14: packColor is a function of the quantized channels and injective on *)
(* them: the packed scalar of a color with quantized channels qr, qg, qb   *)
(* is qr + qb*129 + qg*129^2, its mixed-radix digits (value mod 129,       *)
(* floor(value/129) mod 129, floor(value/129^2)) are (qr, qb, qg), the     *)
(* shader's float2color reads them back in that order, and no color with   *)
(* other quantized channels packs to the same scalar.                      *)
(***************************************************************************)
Quantized(color) == <<Quantize(color[1]), Quantize(color[2]), Quantize(color[3])>>

C14_PackColorInjective ==
  ret # Undefined =>
    LET qr == Quantize(arg[1])
        qg == Quantize(arg[2])
        qb == Quantize(arg[3])
    IN /\ qr \in 0..128 /\ qg \in 0..128 /\ qb \in 0..128
       /\ ret = qr + qb * 129 + qg * 129 * 129
       /\ <<ret % 129, (ret \div 129) % 129, ret \div (129 * 129)>> = <<qr, qb, qg>>
       /\ float2color(ret) = <<2 * qr, 2 * qg, 2 * qb>>
       /\ \A color \in Colors : packColor(color) = ret => Quantized(color) = Quantized(arg)

C14_Witness ==
  /\ ret # Undefined
  /\ Quantized(arg) = <<1, 128, 64>>
  /\ ret = 1 + 64 * 129 + 128 * 129 * 129

(***************************************************************************)
(* C15: an update leaves the base matrix pixelsToWebGLMatrix_ as it is and *)
(* sets mapMatrix_ to the base matrix with its x and y columns multiplied  *)
(* by 2^zoom and its translation column increased by the scaled columns    *)
(* applied to minus the world position of the top left corner; this is a   *)
(* function of base matrix, zoom and offset only, whatever mapMatrix_ held *)
(* from earlier frames, and at zoom 0 with zero offset it is the base      *)
(* matrix.                                                                 *)
(***************************************************************************)
UpdateStep == calls' = calls + 1 /\ op'.name = "update"

ExpectedMatrix(base, zoom, offset) ==
  [i \in 1..16 |->
     IF i <= 8 THEN base[i] * (2 ^ zoom)
     ELSE IF i <= 12 THEN base[i]
     ELSE base[i] - (base[i - 12] * (2 ^ zoom)) * offset[1]
                  - (base[i - 8] * (2 ^ zoom)) * offset[2]]

C15_Transform ==
  UpdateStep =>
    /\ pixelsToWebGLMatrix_' = pixelsToWebGLMatrix_
    /\ mapMatrix_' = ExpectedMatrix(pixelsToWebGLMatrix_, map_.zoom, coordsToXY_(map_.topLeft))
    /\ (map_.zoom = 0 /\ coordsToXY_(map_.topLeft) = <<0, 0>>) =>
          mapMatrix_' = pixelsToWebGLMatrix_

C15_ViewTransform == [][C15_Transform]_vars

C15_Witness ==
  /\ op.name = "update"
  /\ calls = 2
  /\ map_.zoom = 2
  /\ map_.topLeft = <<0, 45>>
  /\ pixelsToWebGLMatrix_ = <<2, 0, 0, 0, 0, 0 - 1, 0, 0, 0, 0, 0, 0, 0 - 1, 1, 0, 1>>
  /\ mapMatrix_ = <<8, 0, 0, 0, 0, 0 - 4, 0, 0, 0, 0, 0, 0, 0 - 1025, 369, 0, 1>>

(***************************************************************************)
(* C16, as stated: the scaled columns an update computes at zoom 2z are    *)
(* twice those it computes at zoom z, for the same base matrix.            *)
(***************************************************************************)
ScaledColumns(matrix) == [i \in 1..8 |-> matrix[i]]

AtZoom(zoom) == viewTransform(mapMatrix_', pixelsToWebGLMatrix_, [map_ EXCEPT !.zoom = zoom])

C16_Doubled ==
  UpdateStep =>
    ScaledColumns(AtZoom(2 * map_.zoom)) = [i \in 1..8 |-> 2 * mapMatrix_'[i]]

C16_DoubleZoomDoublesScale == [][C16_Doubled]_vars

(***************************************************************************)
(* C16, amended: the scaled columns an update computes at zoom z + 1 are   *)
(* twice those it computes at zoom z, the scale being 2^zoom.              *)
(***************************************************************************)
C16_Incremented ==
  UpdateStep =>
    /\ ScaledColumns(mapMatrix_') = [i \in 1..8 |-> pixelsToWebGLMatrix_[i] * scale(map_.zoom)]
    /\ ScaledColumns(AtZoom(map_.zoom + 1)) = [i \in 1..8 |-> 2 * mapMatrix_'[i]]

C16_NextZoomDoublesScale == [][C16_Incremented]_vars

C16_Witness ==
  /\ op.name = "update"
  /\ calls = 1
  /\ map_.zoom = 2
  /\ pixelsToWebGLMatrix_[1] = 1
  /\ mapMatrix_[1] = 4

(***************************************************************************)
(* C17: in every reachable state the length of the points array, of the    *)
(* polygon fill array and of the polygon border array is a multiple of 3.  *)
(***************************************************************************)
C17_LengthsMultipleOfThree ==
  /\ Len(features_.points.floats) % 3 = 0
  /\ Len(features_.polygons.floats) % 3 = 0
  /\ Len(features_.polygons.borderFloats) % 3 = 0

C17_Witness ==
  /\ op.name = "changePolyColor"
  /\ Len(features_.polygons.floats) = 3 * features_.polygons.count + 3
  /\ Len(features_.polygons.borderFloats) > 0

(***************************************************************************)
(* C18: a request completes at any time after it was sent, whatever the    *)
(* view is by then and whatever updates ran.  Every completion with status *)
(* 200 ingests its payload exactly once: loadData runs on it, no URL       *)
(* completes twice, and every supported feature of the payload is           *)
(* appended.  The ingest only appends: the three vertex arrays,            *)
(* borderCounts and the features stamped before are prefixes of what they  *)
(* are after it.                                                           *)
(***************************************************************************)
IsPrefix(s, t) == Len(s) <= Len(t) /\ SubSeq(t, 1, Len(s)) = s

Completed200 ==
  /\ Len(responses') = Len(responses) + 1
  /\ responses'[Len(responses')].status = 200

C18_Once ==
  Completed200 =>
    LET url == responses'[Len(responses')].url
    IN /\ \A k \in 1..Len(responses) : responses[k].url # url
       /\ \E k \in 1..Len(sent) : sent[k] = url
       /\ op'.name = "loadData" /\ op'.data = TilePayload(url)

C18_AppendOnly ==
  Completed200 =>
    /\ IsPrefix(features_.points.floats, features_'.points.floats)
    /\ IsPrefix(features_.polygons.floats, features_'.polygons.floats)
    /\ IsPrefix(features_.polygons.borderFloats, features_'.polygons.borderFloats)
    /\ IsPrefix(features_.polygons.borderCounts, features_'.polygons.borderCounts)
    /\ IsPrefix(log, log')

C18_WholePayload ==
  Completed200 =>
    Len(SelectSeq(SubSeq(log', Len(log) + 1, Len(log')), Ingested))
      = Len(SelectSeq(op'.data, Supported))

C18_LateIngestAppendsOnce == [][C18_Once /\ C18_AppendOnly /\ C18_WholePayload]_vars

(***************************************************************************)
(* C19: the calls processPolygon makes on the tesselator are, in order,    *)
(* one beginPolygon, then for each ring in ring order one beginContour,    *)
(* one vertex call per vertex of the ring in vertex order and one          *)
(* endContour, then one endPolygon; at every moment the calls made so far  *)
(* are a prefix of that sequence, so no vertex call is outside a contour   *)
(* and no contour outside the polygon bracket.  The fill array changes     *)
(* only in a step taken after endPolygon has returned, and then by the     *)
(* vertices the tesselator emitted.                                        *)
(***************************************************************************)
ContourCalls(ring) ==
  << <<"beginContour">> >>
    \o [v \in 1..Len(ring) |->
          <<"vertex", <<coordsToXY_(ring[v])[1], coordsToXY_(ring[v])[2], 0>>>>]
    \o << <<"endContour">> >>

Protocol(coordinates) ==
  << <<"beginPolygon">> >>
    \o Flatten([r \in 1..Len(coordinates) |-> ContourCalls(coordinates[r])])
    \o << <<"endPolygon">> >>

C19_Order ==
  pp.pc # "idle" =>
    /\ pp.coordinates = arg
    /\ IsPrefix(pp.tess, Protocol(arg))
    /\ pp.pc \in {"concat", "done", "thrown"} <=> pp.tess = Protocol(arg)
    /\ pp.pc # "done" => features_.polygons.floats = <<>>
    /\ pp.pc = "done" =>
         /\ ~TessFatal(arg)
         /\ features_.polygons.floats = pp.polyVerts
         /\ features_.polygons.borderFloats = BorderPoints(arg)
    /\ pp.pc = "thrown" => TessFatal(arg)

C19_FillStep ==
  features_'.polygons.floats # features_.polygons.floats =>
    /\ pp.tess = Protocol(arg)
    /\ pp'.tess = pp.tess
    /\ features_'.polygons.floats = features_.polygons.floats \o pp.polyVerts

C19_TesselatorProtocol == []C19_Order /\ [][C19_FillStep]_vars

C19_Witness ==
  /\ pp.pc = "done"
  /\ arg = <<QuadRing, TriRing2>>
  /\ Len(pp.tess) = 13
  /\ Len(features_.polygons.floats) = 45

(***************************************************************************)
(* C20: in every reachable state each counter is a third of the length of  *)
(* the array it describes: points.count of points.floats, polygons.count   *)
(* of polygons.floats and polygons.borderCount of polygons.borderFloats.   *)
(***************************************************************************)
C20_CountersMatchArrays ==
  /\ 3 * features_.points.count = Len(features_.points.floats)
  /\ 3 * features_.polygons.count = Len(features_.polygons.floats)
  /\ 3 * features_.polygons.borderCount = Len(features_.polygons.borderFloats)

(***************************************************************************)
(* C21: a Polygon or MultiPolygon feature whose tesselation fails leaves   *)
(* the fill array, the border array, polygons.count and borderCounts as    *)
(* they were when the feature was started, and its property bag has no     *)
(* indexStart without an indexEnd.                                         *)
(***************************************************************************)
Failed == {k \in 1..Len(log) : Fails(log[k].geometry)}

C21_FailureLeavesNoTrace ==
  \A k \in Failed :
    /\ log[k].post.fill = log[k].pre.fill
    /\ log[k].post.border = log[k].pre.border
    /\ log[k].post.count = log[k].pre.count
    /\ log[k].post.borderCounts = log[k].pre.borderCounts
    /\ HasStart(k) => HasRange(k)

\* The two parts of C21 on their own: the arrays, and the property bag.
C21_ArraysUntouched ==
  \A k \in Failed :
    /\ log[k].post.fill = log[k].pre.fill
    /\ log[k].post.border = log[k].pre.border
    /\ log[k].post.borderCounts = log[k].pre.borderCounts

C21_NoHalfStamp == \A k \in Failed : HasStart(k) => HasRange(k)

C21_SinglePolygonArrays ==
  \A k \in Failed : log[k].geometry.type = "Polygon" =>
    log[k].post.fill = log[k].pre.fill /\ log[k].post.border = log[k].pre.border

(***************************************************************************)
(* C22: every call of loadData, changePointColor and changePolyColor       *)
(* leaves an update scheduled, and, the canvas layer running every         *)
(* scheduled update, a dirty flag that is set is eventually cleared by an  *)
(* update that uploads its buffer.                                         *)
(***************************************************************************)
C22_Schedules == calls' = calls + 1 => scheduled'

C22_PointsUploaded ==
  features_.points.changed ~>
    (~features_.points.changed /\ gl_.points = features_.points.floats)

C22_PolygonsUploaded ==
  features_.polygons.changed ~>
    (/\ ~features_.polygons.changed
     /\ gl_.buffer = features_.polygons.floats
     /\ gl_.borderbuffer = features_.polygons.borderFloats)

C22_DirtyIsUploaded ==
  /\ [][C22_Schedules]_vars
  /\ C22_PointsUploaded
  /\ C22_PolygonsUploaded

\* C22 without a call that throws: a set flag always has an update pending.
C22_DirtyIsScheduled ==
  (features_.points.changed \/ features_.polygons.changed) => scheduled

====
